---- MODULE Spec2Model ----
\* Model of src/HTML.js: the ChatAIClass adapter (getResponse) and the App
\* component's submit / reveal logic (button onClick, reveal setInterval),
\* its re-renders and the mount / cleanup of its Three.js scene.
\* Strings are sequences of one-character strings.  JavaScript runs every
\* handler to its next await without interleaving, so one action is one
\* handler run (or one continuation after an await).
EXTENDS Integers, Sequences, FiniteSets, TLC

VARIABLES prompt, response, isLoading, displayText, trace, pending, timers, event,
          managers, teardown, raf

vars == <<prompt, response, isLoading, displayText, trace, pending, timers, event,
          managers, teardown, raf>>

\* ---------------------------------------------------------------- bounds
MaxSubmits == 2
MaxReplyLen == 1
\* ChatManager constructions are counted up to this many
MaxManagers == 2

\* ---------------------------------------------------------------- inputs
\* what the user can type: empty, blank, plain and padded prompts
Prompts == {<<>>, <<" ", " ">>, <<"p">>, <<" ", "q", " ">>}

ReplyLetters == <<"a", "b", "c", "d">>

\* what the engine can reply (the empty reply included)
Replies == {SubSeq(ReplyLetters, 1, n) : n \in 0..MaxReplyLen} \cup {<<"x">>}

\* what the engine can reject with
Errors == {<<"!">>}

\* ---------------------------------------------------------------- helpers
RECURSIVE TrimStart(_)
TrimStart(s) == IF s # <<>> /\ Head(s) = " " THEN TrimStart(Tail(s)) ELSE s

RECURSIVE TrimEnd(_)
TrimEnd(s) ==
  IF s # <<>> /\ s[Len(s)] = " " THEN TrimEnd(SubSeq(s, 1, Len(s) - 1)) ELSE s

\* String.prototype.trim
Trim(s) == TrimEnd(TrimStart(s))

\* result.slice(0, i) for 0 <= i
Slice0(s, i) == SubSeq(s, 1, IF i <= Len(s) THEN i ELSE Len(s))

\* one observable step at the adapter / engine / console boundary
Ev(op, id, role, text) == [op |-> op, id |-> id, role |-> role, text |-> text]

AddMessage(id, role, text) == Ev("addMessage", id, role, text)

CallIds == {trace[k].id : k \in {j \in 1..Len(trace) : trace[j].op = "call"}}

\* the engine's history: the turns appended through addMessage, in order
IsTurn(e) == e.op = "addMessage"
History == SelectSeq(trace, IsTurn)

\* ---------------------------------------------------------------- view
emojiParticleCount == 15

Res(kind, k) == [res |-> kind, k |-> k]

\* the graphics resources the mount effect creates
Acquired ==
  {Res("geometry", 0), Res("material", 0),
   Res("particleGeometry", 0), Res("particleMaterial", 0), Res("renderer", 0)}
  \cup {Res("emoji.material.map", k) : k \in 1..emojiParticleCount}
  \cup {Res("emoji.material", k) : k \in 1..emojiParticleCount}

Step(op, kind, k) == [op |-> op, res |-> kind, k |-> k]

\* emojisRef.current.forEach in the cleanup
EmojiDisposals ==
  [n \in 1..(2 * emojiParticleCount) |->
     IF n % 2 = 1 THEN Step("dispose", "emoji.material.map", (n + 1) \div 2)
     ELSE Step("dispose", "emoji.material", n \div 2)]

\* the effect's cleanup function, statement by statement.  mountRef.current
\* is read when the cleanup runs: if the host has already detached the ref
\* it is null and the removeChild statement throws, ending the cleanup.
Cleanup(refAttached) ==
  IF refAttached
  THEN <<Step("removeEventListener", "window", 0),
         Step("removeChild", "renderer.domElement", 0),
         Step("dispose", "geometry", 0),
         Step("dispose", "material", 0)>>
       \o EmojiDisposals
       \o <<Step("dispose", "renderer", 0)>>
  ELSE <<Step("removeEventListener", "window", 0)>>

\* the component is mounted until its cleanup has run
mounted == teardown = <<>>

\* the component function runs again whenever a state value changed, and
\* every run evaluates the argument of useRef(new ChatAIClass())
Rendered(before, after) == mounted /\ before # after

Constructed(n, rendered) == IF rendered /\ n < MaxManagers THEN n + 1 ELSE n

\* timers of equal period fire in the order they were started: a reveal
\* fires its next tick only after every older reveal has fired that tick
Due(id) == \A o \in DOMAIN timers : o < id => timers[o].i > timers[id].i

\* ---------------------------------------------------------------- adapter
\* getResponse up to its await: the user turn, then the engine request
GetResponseBegin(id, p) ==
  <<Ev("call", id, "-", p),
    AddMessage(id, "user", p),
    Ev("getCharacterResponse", id, "classify", <<>>)>>

\* faulty variant: the reply is returned but never recorded as a turn
GetResponseEnd_NoAssistant(id, r) ==
  <<Ev("resolve", id, "-", r),
    Ev("return", id, "-", r)>>

\* faulty variant: the reply is recorded under the user's role
GetResponseEnd_UserRole(id, r) ==
  <<Ev("resolve", id, "-", r),
    AddMessage(id, "user", r),
    Ev("return", id, "-", r)>>

\* getResponse after the await resolved with r: the assistant turn, return r
GetResponseEnd(id, r) ==
  <<Ev("resolve", id, "-", r),
    AddMessage(id, "assistant", r),
    Ev("return", id, "-", r)>>

\* faulty variant: the failure is recorded as an assistant turn
GetResponseThrow_Recorded(id, e) ==
  <<Ev("reject", id, "-", e),
    AddMessage(id, "assistant", e),
    Ev("throw", id, "-", e)>>

\* faulty variant: a failed request is issued once more before giving up
GetResponseThrow_Retry(id, e) ==
  <<Ev("reject", id, "-", e),
    Ev("getCharacterResponse", id, "classify", <<>>),
    Ev("reject", id, "-", e),
    Ev("throw", id, "-", e)>>

\* getResponse when the await rejected with e: the rejection leaves the
\* async function at the await, nothing after it runs
GetResponseThrow(id, e) ==
  <<Ev("reject", id, "-", e),
    Ev("throw", id, "-", e)>>

\* ---------------------------------------------------------------- controller
\* faulty variant: the guard forgets the loading flag
Rejected_NoLoading(p, loading) == Trim(p) = <<>>

\* faulty variant: the guard forgets to trim
Rejected_NoTrim(p, loading) == p = <<>> \/ loading

\* the guard at the head of the click handler
Rejected(p, loading) == Trim(p) = <<>> \/ loading

Init ==
  /\ prompt = <<>>
  /\ response = <<>>
  /\ isLoading = FALSE
  /\ displayText = <<>>
  /\ trace = <<>>
  /\ pending = {}
  /\ timers = <<>>
  /\ event = "mount"
  /\ managers = 1
  /\ teardown = <<>>
  /\ raf = TRUE

state == <<prompt, response, isLoading, displayText>>

\* the re-render (if any) that follows a handler run
Rerender == managers' = Constructed(managers, Rendered(state, state'))

\* input onChange
SetPrompt ==
  \E p \in Prompts :
    /\ mounted
    /\ p # prompt
    /\ prompt' = p
    /\ event' = "type"
    /\ UNCHANGED <<response, isLoading, displayText, trace, pending, timers>>
    /\ Rerender
    /\ UNCHANGED <<teardown, raf>>

\* button onClick, up to the await inside getResponse
OnClick ==
  /\ mounted
  /\ IF Rejected(prompt, isLoading)
     THEN /\ event' = "click_return"
          /\ UNCHANGED <<prompt, response, isLoading, displayText, trace, pending, timers>>
     ELSE LET id == Cardinality(CallIds) + 1 IN
          /\ id <= MaxSubmits
          /\ isLoading' = TRUE
          /\ response' = <<>>
          /\ displayText' = <<>>
          /\ trace' = trace \o GetResponseBegin(id, prompt)
          /\ pending' = pending \cup {id}
          /\ event' = "click_await"
          /\ UNCHANGED <<prompt, timers>>
  /\ Rerender
  /\ UNCHANGED <<teardown, raf>>

\* the engine request of call id resolves with r: rest of getResponse, then
\* the try block (setResponse, setInterval) and the finally block; the state
\* setters of an unmounted component have no effect
Resolve ==
  \E id \in pending, r \in Replies :
    /\ trace' = trace \o GetResponseEnd(id, r)
    /\ pending' = pending \ {id}
    /\ response' = IF mounted THEN trace'[Len(trace')].text ELSE response
    /\ timers' = [t \in DOMAIN timers \cup {id} |->
                    IF t = id THEN [result |-> trace'[Len(trace')].text, i |-> 0]
                    ELSE timers[t]]
    /\ isLoading' = IF mounted THEN FALSE ELSE isLoading
    /\ event' = "resolve"
    /\ UNCHANGED <<prompt, displayText>>
    /\ Rerender
    /\ UNCHANGED <<teardown, raf>>

\* the engine request of call id rejects with e: getResponse throws, then the
\* catch block (console.error) and the finally block
Reject ==
  \E id \in pending, e \in Errors :
    /\ trace' = trace \o GetResponseThrow(id, e)
                      \o <<Ev("console.error", id, "-", e)>>
    /\ pending' = pending \ {id}
    /\ isLoading' = IF mounted THEN FALSE ELSE isLoading
    /\ event' = "reject"
    /\ UNCHANGED <<prompt, response, displayText, timers>>
    /\ Rerender
    /\ UNCHANGED <<teardown, raf>>

\* one firing of the setInterval callback of the reveal started by call id
Tick ==
  \E id \in DOMAIN timers :
    LET t == timers[id] IN
    /\ Due(id)
    /\ IF t.i <= Len(t.result)
       THEN /\ displayText' = IF mounted THEN Slice0(t.result, t.i) ELSE displayText
            /\ timers' = [timers EXCEPT ![id].i = t.i + 1]
            /\ event' = "tick"
            /\ UNCHANGED <<prompt, response, isLoading, trace, pending>>
       ELSE /\ timers' = [x \in DOMAIN timers \ {id} |-> timers[x]]
            /\ event' = "tick_clear"
            /\ UNCHANGED <<prompt, response, isLoading, displayText, trace, pending>>
    /\ Rerender
    /\ UNCHANGED <<teardown, raf>>

\* the host unmounts the component: the effect's cleanup runs
Unmount ==
  \E refAttached \in BOOLEAN :
    /\ mounted
    /\ teardown' = Cleanup(refAttached)
    /\ event' = "unmount"
    /\ UNCHANGED <<prompt, response, isLoading, displayText, trace, pending, timers,
                   managers, raf>>

\* one animation frame: animate asks for the next frame, then draws
Frame ==
  /\ raf
  /\ raf' = TRUE
  /\ event' = "frame"
  /\ UNCHANGED <<prompt, response, isLoading, displayText, trace, pending, timers,
                 managers, teardown>>

\* the page as src/HTML.js runs it: it renders App and never unmounts it
Next == SetPrompt \/ OnClick \/ Resolve \/ Reject \/ Tick

Spec == Init /\ [][Next]_vars

\* the same with the animation loop and a host that may unmount App
NextView == SetPrompt \/ OnClick \/ Resolve \/ Reject \/ Tick \/ Unmount \/ Frame

SpecView == Init /\ [][NextView]_vars

\* ---------------------------------------------------------------- properties
ClickEvents == {"click_return", "click_await"}

Blank(p) == \A k \in 1..Len(p) : p[k] = " "

\* everything one call did at the adapter and engine boundary, in order
CallTrace(d) == SelectSeq(trace, LAMBDA e : e.id = d /\ e.op # "console.error")

Has(d, op) == \E k \in 1..Len(trace) : trace[k].id = d /\ trace[k].op = op

EvOf(d, op) == trace[CHOOSE k \in 1..Len(trace) : trace[k].id = d /\ trace[k].op = op]

\* the engine history as it stood after the first k steps of the trace
HistoryAt(k) == SelectSeq(SubSeq(trace, 1, k), IsTurn)

\* C1: a getResponse(P) call with non-empty P whose engine request resolved
\* with R did exactly this, in this order: one ('user', P) turn, one
\* getCharacterResponse request, one ('assistant', R) turn, return R.
C1_SuccessfulCall ==
  \A d \in CallIds :
    Has(d, "resolve") =>
      LET P == EvOf(d, "call").text
          R == EvOf(d, "resolve").text
      IN /\ P # <<>>
         /\ CallTrace(d) = <<Ev("call", d, "-", P),
                             AddMessage(d, "user", P),
                             Ev("getCharacterResponse", d, "classify", <<>>),
                             Ev("resolve", d, "-", R),
                             AddMessage(d, "assistant", R),
                             Ev("return", d, "-", R)>>

C1_Witness ==
  \E d \in CallIds : Has(d, "return") /\ EvOf(d, "return").text # <<>>

\* C2: a getResponse(P) call whose engine request rejected with e threw that
\* same e, appended no assistant turn, and left the engine history ending
\* with the dangling ('user', P) turn.
C2_FailedCall ==
  \A d \in CallIds :
    Has(d, "reject") =>
      LET P == EvOf(d, "call").text
          e == EvOf(d, "reject").text
          k == CHOOSE j \in 1..Len(trace) : trace[j].id = d /\ trace[j].op = "reject"
          h == HistoryAt(k + 1)
      IN /\ CallTrace(d) = <<Ev("call", d, "-", P),
                             AddMessage(d, "user", P),
                             Ev("getCharacterResponse", d, "classify", <<>>),
                             Ev("reject", d, "-", e),
                             Ev("throw", d, "-", e)>>
         /\ h # <<>>
         /\ h[Len(h)] = AddMessage(d, "user", P)

C2_Witness == \E d \in CallIds : Has(d, "throw")

\* C3: a click that fires while isLoading is true changes nothing: not the
\* engine history, response, displayText, isLoading, the outstanding engine
\* requests, nor the reveal timers.
C3_ClickWhileLoading ==
  [][(event' \in ClickEvents /\ isLoading) =>
        UNCHANGED <<trace, response, displayText, isLoading, pending, timers, prompt>>]_vars

C3_Witness ==
  event = "click_return" /\ isLoading /\ ~Blank(prompt) /\ pending # {}

\* C4: a click with an empty or whitespace-only prompt changes no state and
\* never invokes getResponse; in particular isLoading stays false.
C4_BlankPrompt ==
  [][(event' \in ClickEvents /\ Blank(prompt)) =>
        /\ UNCHANGED <<trace, response, displayText, isLoading, pending, timers, prompt>>
        /\ (~isLoading => ~isLoading')]_vars

C4_Witness ==
  event = "click_return" /\ ~isLoading /\ prompt # <<>> /\ Blank(prompt)

\* C5 (as claimed): when the engine call of an accepted submit fails,
\* isLoading is false, response and displayText are empty, no reveal timer
\* is started and the error text is not in the displayed text.
C5_FailureLeavesDisplayEmpty ==
  [][event' = "reject" =>
        /\ isLoading' = FALSE
        /\ response' = <<>>
        /\ displayText' = <<>>
        /\ DOMAIN timers' \subseteq DOMAIN timers
        /\ \A e \in Errors : response' # e /\ displayText' # e]_vars

\* C6 (as claimed): outside a submission, displayText only ever changes by
\* growing one character to the next longer prefix of response, so a reply
\* of length N is shown as its prefixes of length 0, 1, ..., N in order.
C6_RevealOneCharAtATime ==
  [][(displayText' # displayText /\ event' # "click_await") =>
        /\ Len(displayText) < Len(response)
        /\ displayText' = SubSeq(response, 1, Len(displayText) + 1)]_vars

\* C7 (as claimed): an accepted submission cancels the reveal timer of the
\* earlier reply, and two reveal timers are never active together.
C7_SubmitCancelsOldReveal ==
  /\ [](Cardinality(DOMAIN timers) <= 1)
  /\ [][event' = "click_await" => DOMAIN timers' = {}]_vars

\* C8 (as claimed): a click that fires while a request is outstanding, or
\* while a reveal timer is running with displayText shorter than response,
\* is ignored and does not invoke getResponse.
C8_SubmitOnlyWhenIdle ==
  [][(event' \in ClickEvents
        /\ (pending # {} \/ (DOMAIN timers # {} /\ Len(displayText) < Len(response)))) =>
        event' = "click_return" /\ trace' = trace]_vars

\* C9 (as claimed): an active reveal timer implies isLoading is true.
C9_LoadingDuringReveal == DOMAIN timers # {} => isLoading

\* C10: at most one getResponse call is outstanding at any time, and the
\* steps of one call are never interleaved with those of another (calls are
\* numbered in the order they start, so once a later call has made a step no
\* earlier call makes one).
C10_OneOutstandingCall ==
  /\ Cardinality(pending) <= 1
  /\ \A j \in 1..(Len(trace) - 1) : trace[j].id <= trace[j + 1].id

C10_Witness ==
  pending = {2} /\ DOMAIN timers = {1} /\ event = "click_return" /\ ~Blank(prompt)

NumOps(op) == Cardinality({k \in 1..Len(trace) : trace[k].op = op})

Requests == NumOps("getCharacterResponse")

\* the most recent getResponse call
LastCall == Cardinality(CallIds)

\* C11 (as claimed, its finite part): a user turn in the engine history is
\* never followed by anything but an assistant turn.
C11_UserTurnThenAssistant ==
  LET h == History IN
  \A k \in 1..(Len(h) - 1) : h[k].role = "user" => h[k + 1].role = "assistant"

\* C11 (amended): the user turn of a call whose request resolved with R is
\* followed at once by the one ('assistant', R) turn of that call and by no
\* second assistant turn; the user turn of any other call is followed by no
\* assistant turn.
C11_AnsweredWhenResolved ==
  LET h == History IN
  \A k \in 1..Len(h) :
    h[k].role = "user" =>
      LET d == h[k].id IN
      IF Has(d, "resolve")
      THEN /\ k + 1 <= Len(h)
           /\ h[k + 1] = AddMessage(d, "assistant", EvOf(d, "resolve").text)
           /\ (k + 2 <= Len(h) => h[k + 2].role = "user")
      ELSE k + 1 <= Len(h) => h[k + 1].role = "user"

C11_Witness ==
  LET h == History IN
  /\ Len(h) = 3
  /\ Has(1, "reject")
  /\ h[2].role = "user"
  /\ h[3].role = "assistant"

\* C12 (as claimed, its final state): once the last submission's request
\* has resolved with R and nothing is outstanding or ticking any more,
\* isLoading is false and displayText = response = R.
C12_SettlesOnReply ==
  (LastCall > 0 /\ Has(LastCall, "resolve") /\ pending = {} /\ DOMAIN timers = {}) =>
     /\ ~isLoading
     /\ response = EvOf(LastCall, "resolve").text
     /\ displayText = response

\* C16: only an accepted click issues a getCharacterResponse request, and it
\* issues exactly one; no other step (a failure in particular) issues one.
C16_NoRetry ==
  [][/\ (event' = "click_await") => Requests' = Requests + 1
     /\ (event' # "click_await") => Requests' = Requests]_vars

C16_Witness == Has(1, "reject") /\ Has(2, "call") /\ Requests = 2

\* C17 (as claimed): displayText is always a prefix of response.
C17_DisplayIsPrefixOfReply ==
  /\ Len(displayText) <= Len(response)
  /\ displayText = SubSeq(response, 1, Len(displayText))

\* C13 (as claimed): once the component is torn down no reveal timer is
\* registered any more, so none can fire.
C13_TeardownCancelsReveal == ~mounted => DOMAIN timers = {}

\* C14 (as claimed): exactly one ChatManager is ever constructed, however
\* often the component re-renders.
C14_OneManager == managers = 1

\* C15 (as claimed): in the teardown every dispose comes before the
\* rendering surface is removed from its host element.
C15_DisposeBeforeRemoval ==
  \A i, j \in 1..Len(teardown) :
    (teardown[i].op = "removeChild" /\ teardown[j].op = "dispose") => j < i

\* C18 (as claimed): after teardown every resource acquired at mount has
\* been disposed and no further animation frame is scheduled.
C18_AllReleased ==
  ~mounted =>
     /\ \A r \in Acquired :
          \E j \in 1..Len(teardown) : teardown[j] = Step("dispose", r.res, r.k)
     /\ ~raf

\* C19: in the engine history every assistant turn comes right after a user
\* turn (so no two assistant turns are adjacent), there are as many
\* assistant turns as resolved requests and as many user turns as accepted
\* submissions, and the text of each assistant turn is what the step that
\* appended it stored in response.
C19_HistoryShape ==
  /\ [](LET h == History IN
        /\ \A k \in 1..Len(h) :
             h[k].role = "assistant" => (k > 1 /\ h[k - 1].role = "user")
        /\ Cardinality({k \in 1..Len(h) : h[k].role = "assistant"}) = NumOps("resolve")
        /\ Cardinality({k \in 1..Len(h) : h[k].role = "user"}) = NumOps("call"))
  /\ [][NumOps("resolve")' > NumOps("resolve") =>
          /\ History' # <<>>
          /\ History'[Len(History')].role = "assistant"
          /\ History'[Len(History')].text = response']_vars

C19_Witness ==
  /\ NumOps("call") = 2
  /\ NumOps("reject") = 1
  /\ NumOps("resolve") = 1
  /\ response # <<>>

TypeOK ==
  /\ prompt \in Prompts
  /\ response \in Replies
  /\ isLoading \in BOOLEAN
  /\ pending \subseteq 1..MaxSubmits
  /\ DOMAIN timers \subseteq 1..MaxSubmits
  /\ managers \in 1..MaxManagers
  /\ teardown \in {<<>>, Cleanup(TRUE), Cleanup(FALSE)}
  /\ raf \in BOOLEAN
====
